---- MODULE Spec2Model ----
(***************************************************************************)
(* Model of youtube.py: a Telegram bot that searches YouTube for a text    *)
(* query, presents the first results as inline buttons and, on a button    *)
(* click, downloads the best audio stream of the chosen video in a thread  *)
(* and sends it to the chat.                                               *)
(*                                                                         *)
(* Strings of the program are sequences of one-character strings where the *)
(* program looks inside them (message text, JSON strings); the fixed       *)
(* texts the bot shows are TLA+ strings.  A callback payload is the token  *)
(* sequence of its JSON text.                                              *)
(***************************************************************************)
EXTENDS Integers, Sequences, FiniteSets, TLC

\* ------------------------------------------------------------------ bounds
\* Inbound events (text messages and button clicks) the polling loop receives.
MaxEvents == 2
\* Collaborator calls (transport, lookup, download, file system) that fail.
MaxFaults == 2
\* Stream descriptors of a video, where every list of descriptors is tried.
MaxStreams == 3

\* ------------------------------------------------------- program constants
\* search_results[:5]
TopResults == 5

\* ---------------------------------------------------------------- strings
Whitespace == {" "}

RECURSIVE lstrip(_)
lstrip(s) ==
    IF s # <<>> /\ Head(s) \in Whitespace THEN lstrip(Tail(s)) ELSE s

RECURSIVE rstrip(_)
rstrip(s) ==
    IF s # <<>> /\ s[Len(s)] \in Whitespace
    THEN rstrip(SubSeq(s, 1, Len(s) - 1))
    ELSE s

\* str.strip()
strip(s) == rstrip(lstrip(s))

\* The texts the bot shows.
TextSearching  == "Searching for your song on YouTube..."
TextNoResults  == "Sorry, I couldn't find any results for that query."
TextChoose     == "Please choose a song:"
TextSearchErr  == "An error occurred during the search. Please try again."
TextGetting    == "Getting audio for your selected song..."
TextNoAudio    == "Sorry, no audio streams found for this video."
TextYouTubeErr == "Sorry, a YouTube-related error occurred while processing your request: "
TextUnexpected == "An unexpected error occurred while processing your request. The developer has been notified."
AckDownloading == "Downloading..."
AckInvalid     == "Error: Invalid button data."
AckUnexpected  == "An unexpected error occurred."

\* ------------------------------------------------------------- exceptions
NoExc == "none"
\* pytube.exceptions: VideoUnavailable is a subclass of PytubeError.
PytubeErrors == {"PytubeError", "VideoUnavailable"}
\* Everything else the except Exception clauses catch.
OtherErrors == {"IndexError", "KeyError", "TypeError", "ApiException", "OSError"}

\* ------------------------------------------------------------------- JSON
\* A token of a JSON text: punctuation, a string, an integer, or junk that
\* belongs to no JSON text.
Tok(t, s, n) == [t |-> t, s |-> s, n |-> n]
Punct(c) == Tok(c, <<>>, 0)
StrTok(s) == Tok("str", s, 0)
IntTok(n) == Tok("int", <<>>, n)
JunkTok == Tok("junk", <<>>, 0)
NullTok == Tok("null", <<>>, 0)

KeyUrl == <<"u", "r", "l">>
KeyMessageId == <<"m", "e", "s", "s", "a", "g", "e", "_", "i", "d">>
KeyExtra == <<"x">>

Scalars == {"str", "int", "null"}

\* A decoded JSON value: kind "object" with its members, kind "scalar" or
\* "list" for the other JSON values, kind "error" for JSONDecodeError.
JsonError == [kind |-> "error", members |-> <<>>, val |-> NullTok]
JsonScalar(tok) == [kind |-> "scalar", members |-> <<>>, val |-> tok]
JsonList == [kind |-> "list", members |-> <<>>, val |-> NullTok]
JsonObject(members) == [kind |-> "object", members |-> members, val |-> NullTok]

\* json.dumps of a dict: members in insertion order.
RECURSIVE dumps_members(_)
dumps_members(members) ==
    IF members = <<>> THEN <<>>
    ELSE <<StrTok(members[1].key), Punct(":"), members[1].val>>
         \o (IF Len(members) > 1 THEN <<Punct(",")>> ELSE <<>>)
         \o dumps_members(Tail(members))

json_dumps(members) == <<Punct("{")>> \o dumps_members(members) \o <<Punct("}")>>

\* The members of a JSON object text from token i on, after "{" or ",":
\* key ":" scalar, then "," and more members or "}" as the last token.
RECURSIVE loads_members(_, _, _)
loads_members(toks, i, acc) ==
    IF i + 3 > Len(toks) THEN JsonError
    ELSE IF toks[i].t # "str" \/ toks[i + 1].t # ":" \/ toks[i + 2].t \notin Scalars
    THEN JsonError
    ELSE LET m == [key |-> toks[i].s, val |-> toks[i + 2]]
         IN  IF toks[i + 3].t = "}"
             THEN IF i + 3 = Len(toks) THEN JsonObject(Append(acc, m)) ELSE JsonError
             ELSE IF toks[i + 3].t = ","
             THEN loads_members(toks, i + 4, Append(acc, m))
             ELSE JsonError

\* json.loads
json_loads(toks) ==
    IF toks = <<>> THEN JsonError
    ELSE IF toks[1].t \in Scalars
    THEN IF Len(toks) = 1 THEN JsonScalar(toks[1]) ELSE JsonError
    ELSE IF toks[1].t = "["
    THEN IF Len(toks) = 2 /\ toks[2].t = "]" THEN JsonList ELSE JsonError
    ELSE IF toks[1].t = "{"
    THEN IF Len(toks) = 2 /\ toks[2].t = "}" THEN JsonObject(<<>>)
         ELSE loads_members(toks, 2, <<>>)
    ELSE JsonError

\* data[key] of a decoded value: the value of the last member with that key,
\* KeyError when a dict has none, TypeError when data is no dict.
HasKey(data, key) == \E i \in 1..Len(data.members) : data.members[i].key = key

RECURSIVE LastWith(_, _, _)
LastWith(members, key, i) ==
    IF i = 0 THEN NullTok
    ELSE IF members[i].key = key THEN members[i].val
    ELSE LastWith(members, key, i - 1)

GetItem(data, key) == LastWith(data.members, key, Len(data.members))

GetItemError(data, key) ==
    IF data.kind # "object" THEN "TypeError"
    ELSE IF ~HasKey(data, key) THEN "KeyError"
    ELSE NoExc

\* ----------------------------------------------------------------- pytube
\* A stream descriptor of a video (pytube.Stream).
Stream(itag, type, bitrate) == [itag |-> itag, type |-> type, bitrate |-> bitrate]
\* first() of an empty query: None.
NoStream == Stream(0, "none", 0)

\* StreamQuery.filter(only_audio=True)
filter_only_audio(streams) == SelectSeq(streams, LAMBDA s : s.type = "audio")

\* sorted() is stable: x goes after every element whose key is <= its own.
RECURSIVE insert_sorted(_, _)
insert_sorted(sorted, x) ==
    IF sorted = <<>> THEN <<x>>
    ELSE IF Head(sorted).bitrate <= x.bitrate
    THEN <<Head(sorted)>> \o insert_sorted(Tail(sorted), x)
    ELSE <<x>> \o sorted

RECURSIVE sort_from(_, _)
sort_from(streams, acc) ==
    IF streams = <<>> THEN acc
    ELSE sort_from(Tail(streams), insert_sorted(acc, Head(streams)))

\* StreamQuery.order_by('bitrate'): ascending, stable.
order_by_bitrate(streams) == sort_from(streams, <<>>)

descUnreversed(streams) == streams

\* StreamQuery.desc(): the list reversed.
desc(streams) == [i \in 1..Len(streams) |-> streams[Len(streams) + 1 - i]]

\* StreamQuery.first()
first(streams) == IF streams = <<>> THEN NoStream ELSE streams[1]

\* video.streams.filter(only_audio=True).order_by('bitrate').desc().first()
select_audio_stream(streams) == first(desc(order_by_bitrate(filter_only_audio(streams))))

\* The videos YouTube knows in this model.
Url(n) == <<"v", CASE n = 1 -> "1" [] n = 2 -> "2" [] n = 3 -> "3"
                   [] n = 4 -> "4" [] n = 5 -> "5" [] OTHER -> "6">>
UrlBad == <<"b", "a", "d">>

StreamsOf(n) ==
    CASE n = 1 -> <<Stream(1, "audio", 128), Stream(2, "video", 500),
                    Stream(3, "audio", 160), Stream(4, "audio", 160),
                    Stream(5, "audio", 48)>>
      [] n = 2 -> <<Stream(6, "video", 300)>>
      [] OTHER -> <<Stream(7, "audio", 128)>>

Video(n) == [id |-> n, watch_url |-> Url(n), streams |-> StreamsOf(n)]
NoVideo == [id |-> 0, watch_url |-> <<>>, streams |-> <<>>]

NumVideos == TopResults + 1

\* Search(term).results: the query "s" matches every video, the query "t"
\* two of them, each watch url matches its own video, anything else nothing.
SearchResults(term) ==
    IF term = <<"s">> THEN [i \in 1..NumVideos |-> Video(i)]
    ELSE IF term = <<"t">> THEN <<Video(2), Video(1)>>
    ELSE IF \E n \in 1..NumVideos : term = Url(n)
    THEN <<Video(CHOOSE n \in 1..NumVideos : term = Url(n))>>
    ELSE <<>>

\* ------------------------------------------------------------------ state
VARIABLES
    events,    \* the inbound events received so far; a request is its index
    handler,   \* how each event's handler ended: "running", "returned", "raised"
    loop,      \* the frame of handle_text_message the polling loop is running
    threads,   \* the frames of the download_audio_and_send threads, by request
    chat,      \* the messages of the chat; a message_id is an index; audio is 0
               \* for a text message, else the request that created the file sent
    disk,      \* temporary paths: 0 when no file is there, else the request that created it
    log,       \* per request, the collaborator calls it made, in order
    faults     \* collaborator calls that have failed so far

vars == <<events, handler, loop, threads, chat, disk, log, faults>>

Requests == 1..Len(events)
TempPaths == 1..MaxEvents

\* What the polling loop hands to the handlers.
MessageTexts == {<<" ">>, <<" ", "s", " ">>, <<"n">>}

PayloadOtherKey(url, mid) ==
    json_dumps(<<[key |-> KeyUrl, val |-> StrTok(url)],
                 [key |-> KeyExtra, val |-> IntTok(mid)]>>)

\* json.dumps({'url': video.watch_url, 'message_id': processing_message.message_id})
Payload(url, mid) ==
    json_dumps(<<[key |-> KeyUrl, val |-> StrTok(url)],
                 [key |-> KeyMessageId, val |-> IntTok(mid)]>>)

\* Payloads that no button of the bot carries.
ForgedPayloads ==
    { <<JunkTok>>,
      <<Punct("{"), StrTok(KeyUrl), Punct("}")>>,
      <<IntTok(1)>>,
      <<Punct("["), Punct("]")>>,
      json_dumps(<<>>),
      json_dumps(<<[key |-> KeyUrl, val |-> StrTok(Url(1))]>>),
      json_dumps(<<[key |-> KeyMessageId, val |-> IntTok(1)]>>),
      Payload(UrlBad, 1),
      json_dumps(<<[key |-> KeyUrl, val |-> StrTok(Url(1))],
                   [key |-> KeyMessageId, val |-> IntTok(1)],
                   [key |-> KeyExtra, val |-> IntTok(0)]>>) }

\* A call of a collaborator: the operation, the text it shows, the message or
\* path it is about, the exception a text quotes, its outcome, and who made it.
Call(op, text, arg, e, ok, by) ==
    [op |-> op, text |-> text, arg |-> arg, e |-> e, ok |-> ok, by |-> by]

Logged(rid, call) == [log EXCEPT ![rid] = Append(@, call)]

\* The outcomes a collaborator call can have.
Outcomes == IF faults < MaxFaults THEN BOOLEAN ELSE {TRUE}
Count(ok) == IF ok THEN faults ELSE faults + 1

\* ------------------------------------------------------------------- chat
Message(text, e, buttons, audio) ==
    [text |-> text, e |-> e, buttons |-> buttons, audio |-> audio, deleted |-> FALSE]

\* A message the transport can still edit or delete.
Editable(mid) == mid \in 1..Len(chat) /\ ~chat[mid].deleted /\ chat[mid].audio = 0

Edited(mid, text, e, buttons) ==
    [chat EXCEPT ![mid] = [@ EXCEPT !.text = text, !.e = e, !.buttons = buttons]]

\* The callback_data of the buttons on display.
ButtonPayloads ==
    { chat[m].buttons[i] : <<m, i>> \in
        { x \in (1..Len(chat)) \X (1..TopResults) :
            ~chat[x[1]].deleted /\ x[2] <= Len(chat[x[1]].buttons) } }

IdleLoop ==
    [pc |-> "idle", rid |-> 0, query |-> <<>>, processing_message |-> 0,
     search_results |-> <<>>]

\* The locals of download_audio_and_send; pc "none" for a request without thread.
NoThread ==
    [pc |-> "none", video_url |-> NullTok, message_id |-> NullTok,
     processing_message |-> 0, temp_filepath |-> 0, video |-> NoVideo,
     audio_stream |-> NoStream, exc |-> NoExc]

Init ==
    /\ events = <<>>
    /\ handler = <<>>
    /\ loop = IdleLoop
    /\ threads = <<>>
    /\ chat = <<>>
    /\ disk = [p \in TempPaths |-> 0]
    /\ log = <<>>
    /\ faults = 0

\* --------------------------------------------------- handle_text_message
\* The polling loop hands a text message to handle_text_message.
HandleTextMessage(text) ==
    /\ loop.pc = "idle"
    /\ Len(events) < MaxEvents
    /\ LET query == strip(text)
           rid == Len(events) + 1
       IN  /\ events' = Append(events, [kind |-> "text", text |-> text, data |-> <<>>])
           /\ threads' = Append(threads, NoThread)
           /\ log' = Append(log, <<>>)
           /\ IF Len(query) > 0
              THEN /\ loop' = [IdleLoop EXCEPT !.pc = "send_chat_action", !.rid = rid,
                                               !.query = query]
                   /\ handler' = Append(handler, "running")
              ELSE /\ loop' = loop
                   /\ handler' = Append(handler, "returned")
    /\ UNCHANGED <<chat, disk, faults>>

\* The handler ends: it returns, or an exception leaves it.
Ended(how) ==
    /\ loop' = IdleLoop
    /\ handler' = [handler EXCEPT ![loop.rid] = how]

TextSendChatAction ==
    /\ loop.pc = "send_chat_action"
    /\ \E ok \in Outcomes :
        /\ log' = Logged(loop.rid, Call("send_chat_action", "typing", 0, NoExc, ok, "loop"))
        /\ faults' = Count(ok)
        /\ IF ok
           THEN loop' = [loop EXCEPT !.pc = "send_message"] /\ handler' = handler
           ELSE Ended("raised")
    /\ UNCHANGED <<events, threads, chat, disk>>

TextSendMessage ==
    /\ loop.pc = "send_message"
    /\ \E ok \in Outcomes :
        /\ log' = Logged(loop.rid,
                         Call("send_message", TextSearching, IF ok THEN Len(chat) + 1 ELSE 0,
                              NoExc, ok, "loop"))
        /\ faults' = Count(ok)
        /\ IF ok
           THEN /\ chat' = Append(chat, Message(TextSearching, NoExc, <<>>, 0))
                /\ loop' = [loop EXCEPT !.pc = "Search", !.processing_message = Len(chat) + 1]
                /\ handler' = handler
           ELSE /\ chat' = chat
                /\ Ended("raised")
    /\ UNCHANGED <<events, threads, disk>>

AfterSearchUnchecked(results) == "edit_choose"

\* if not search_results: report it and return; else build the keyboard.
AfterSearch(results) == IF results = <<>> THEN "edit_no_results" ELSE "edit_choose"

TextSearch ==
    /\ loop.pc = "Search"
    /\ \E ok \in Outcomes :
        /\ faults' = Count(ok)
        /\ IF ok
           THEN LET results == SearchResults(loop.query)
                IN  /\ log' = Logged(loop.rid, Call("Search", "", Len(results), NoExc, TRUE, "loop"))
                    /\ loop' = [loop EXCEPT !.search_results = results,
                                            !.pc = AfterSearch(results)]
           ELSE \E exc \in {"PytubeError", "OSError"} :
                    /\ log' = Logged(loop.rid, Call("Search", "", 0, exc, FALSE, "loop"))
                    /\ loop' = [loop EXCEPT !.pc = "except"]
    /\ UNCHANGED <<events, handler, threads, chat, disk>>

\* bot.edit_message_text from the handler: it fails on a message that is gone.
TextEdit(text, buttons, next) ==
    LET mid == loop.processing_message
    IN  \E ok \in IF Editable(mid) THEN Outcomes ELSE {FALSE} :
            /\ log' = Logged(loop.rid, Call("edit_message_text", text, mid, NoExc, ok, "loop"))
            /\ faults' = IF Editable(mid) THEN Count(ok) ELSE faults
            /\ IF ok
               THEN /\ chat' = Edited(mid, text, NoExc, buttons)
                    /\ Ended("returned")
               ELSE /\ chat' = chat
                    /\ IF next = "raised"
                       THEN Ended("raised")
                       ELSE loop' = [loop EXCEPT !.pc = next] /\ handler' = handler

TextEditNoResults ==
    /\ loop.pc = "edit_no_results"
    /\ TextEdit(TextNoResults, <<>>, "except")
    /\ UNCHANGED <<events, threads, disk>>

KeyboardUntruncated(search_results, message_id) ==
    [i \in 1..Len(search_results) |-> Payload(search_results[i].watch_url, message_id)]

\* The keyboard: one button for each of the first results.
Keyboard(search_results, message_id) ==
    [i \in 1..(IF Len(search_results) < TopResults THEN Len(search_results) ELSE TopResults)
        |-> Payload(search_results[i].watch_url, message_id)]

TextEditChoose ==
    /\ loop.pc = "edit_choose"
    /\ TextEdit(TextChoose, Keyboard(loop.search_results, loop.processing_message), "except")
    /\ UNCHANGED <<events, threads, disk>>

TextExcept ==
    /\ loop.pc = "except"
    /\ TextEdit(TextSearchErr, <<>>, "raised")
    /\ UNCHANGED <<events, threads, disk>>

\* -------------------------------------------------- handle_callback_query
NewThreadFirstVideo(video_url, message_id) ==
    [NoThread EXCEPT !.pc = "send_chat_action", !.video_url = StrTok(Url(1)),
                     !.message_id = message_id]

\* The frame of a thread started for a click.
NewThread(video_url, message_id) ==
    [NoThread EXCEPT !.pc = "send_chat_action", !.video_url = video_url,
                     !.message_id = message_id]

AnswerErrorSilent(before, text) ==
    /\ log' = Append(log, before)
    /\ faults' = faults + Len(before)
    /\ handler' = Append(handler, "returned")
    /\ threads' = Append(threads, NoThread)

\* bot.answer_callback_query from an except clause, after the failed calls
\* `before`: the handler returns, or the call's own exception leaves it.
AnswerError(before, text) ==
    \E ok \in IF faults + Len(before) < MaxFaults THEN BOOLEAN ELSE {TRUE} :
        /\ log' = Append(log, before \o <<Call("answer_callback_query", text, 0, NoExc, ok, "loop")>>)
        /\ faults' = faults + Len(before) + (IF ok THEN 0 ELSE 1)
        /\ handler' = Append(handler, IF ok THEN "returned" ELSE "raised")
        /\ threads' = Append(threads, NoThread)

CallbackErrorExactFields(data) ==
    IF data.kind = "error" THEN "JSONDecodeError"
    ELSE IF GetItemError(data, KeyUrl) # NoExc THEN GetItemError(data, KeyUrl)
    ELSE IF GetItemError(data, KeyMessageId) # NoExc THEN GetItemError(data, KeyMessageId)
    ELSE IF Len(data.members) # 2 THEN "KeyError"
    ELSE NoExc

CallbackErrorUrlOnly(data) ==
    IF data.kind = "error" THEN "JSONDecodeError" ELSE GetItemError(data, KeyUrl)

\* data = json.loads(call.data); video_url = data['url'];
\* message_id = data['message_id']: the exception these lines raise.
CallbackError(data) ==
    IF data.kind = "error" THEN "JSONDecodeError"
    ELSE IF GetItemError(data, KeyUrl) # NoExc THEN GetItemError(data, KeyUrl)
    ELSE GetItemError(data, KeyMessageId)

\* The polling loop hands a button click to handle_callback_query.
HandleCallbackQuery(payload) ==
    /\ loop.pc = "idle"
    /\ Len(events) < MaxEvents
    /\ events' = Append(events, [kind |-> "click", text |-> <<>>, data |-> payload])
    /\ LET data == json_loads(payload)
       IN  IF CallbackError(data) = "JSONDecodeError"
           THEN AnswerError(<<>>, AckInvalid)
           ELSE IF CallbackError(data) # NoExc
           THEN AnswerError(<<>>, AckUnexpected)
           ELSE \E ok \in Outcomes :
                    LET ack == Call("answer_callback_query", AckDownloading, 0, NoExc, ok, "loop")
                    IN  IF ok
                        THEN /\ log' = Append(log, <<ack, Call("Thread.start", "", 0, NoExc, TRUE, "loop")>>)
                             /\ faults' = faults
                             /\ handler' = Append(handler, "returned")
                             /\ threads' = Append(threads, NewThread(GetItem(data, KeyUrl),
                                                                    GetItem(data, KeyMessageId)))
                        ELSE AnswerError(<<ack>>, AckUnexpected)
    /\ UNCHANGED <<loop, chat, disk>>

\* ------------------------------------------------ download_audio_and_send
RaiseUncaught(f, exc) == [f EXCEPT !.exc = exc, !.pc = "finally"]

\* An exception raised in the try block goes to the except clause for it.
Raise(f, exc) ==
    [f EXCEPT !.exc = exc,
              !.pc = IF exc \in PytubeErrors THEN "except_pytube" ELSE "except_other"]

\* The message a JSON value names, 0 when it names none.
Mid(tok) == IF tok.t = "int" THEN tok.n ELSE 0

Step(t, frame, call) ==
    /\ threads' = [threads EXCEPT ![t] = frame]
    /\ log' = Logged(t, call)

\* bot.edit_message_text from a thread: it fails on a message that is gone.
ThreadEdit(t, mid, text, e, onOk, onFail) ==
    \E ok \in IF Editable(mid) THEN Outcomes ELSE {FALSE} :
        /\ faults' = IF Editable(mid) THEN Count(ok) ELSE faults
        /\ chat' = IF ok THEN Edited(mid, text, e, <<>>) ELSE chat
        /\ Step(t, IF ok THEN onOk ELSE onFail,
                Call("edit_message_text", text, mid, e, ok, "thread"))

ThreadSendChatAction(t) ==
    /\ threads[t].pc = "send_chat_action"
    /\ \E ok \in Outcomes :
        /\ faults' = Count(ok)
        /\ Step(t, IF ok THEN [threads[t] EXCEPT !.pc = "edit_getting"]
                   ELSE Raise(threads[t], "ApiException"),
                Call("send_chat_action", "typing", 0, NoExc, ok, "thread"))
    /\ UNCHANGED <<events, handler, loop, chat, disk>>

ThreadEditGetting(t) ==
    /\ threads[t].pc = "edit_getting"
    /\ LET mid == Mid(threads[t].message_id)
       IN  ThreadEdit(t, mid, TextGetting, NoExc,
                      [threads[t] EXCEPT !.pc = "Search", !.processing_message = mid],
                      Raise(threads[t], "ApiException"))
    /\ UNCHANGED <<events, handler, loop, disk>>

\* video = Search(video_url).results[0]
ThreadSearch(t) ==
    /\ threads[t].pc = "Search"
    /\ LET f == threads[t]
       IN  IF f.video_url.t # "str"
           THEN /\ faults' = faults
                /\ Step(t, Raise(f, "TypeError"), Call("Search", "", 0, "TypeError", FALSE, "thread"))
           ELSE \E ok \in Outcomes :
                    /\ faults' = Count(ok)
                    /\ IF ok
                       THEN LET results == SearchResults(f.video_url.s)
                            IN  Step(t, IF results = <<>> THEN Raise(f, "IndexError")
                                        ELSE [f EXCEPT !.pc = "streams", !.video = results[1]],
                                     Call("Search", "", Len(results), NoExc, TRUE, "thread"))
                       ELSE \E exc \in {"PytubeError", "OSError"} :
                                Step(t, Raise(f, exc), Call("Search", "", 0, exc, FALSE, "thread"))
    /\ UNCHANGED <<events, handler, loop, chat, disk>>

AfterSelectUnchecked(audio_stream) == "NamedTemporaryFile"

\* if not audio_stream: report it and return; else download.
AfterSelect(audio_stream) ==
    IF audio_stream = NoStream THEN "edit_no_audio" ELSE "NamedTemporaryFile"

\* audio_stream = video.streams.filter(...).order_by(...).desc().first()
ThreadSelectStream(t) ==
    /\ threads[t].pc = "streams"
    /\ LET f == threads[t]
       IN  \E ok \in Outcomes :
               /\ faults' = Count(ok)
               /\ IF ok
                  THEN LET audio_stream == select_audio_stream(f.video.streams)
                       IN  Step(t, [f EXCEPT !.audio_stream = audio_stream,
                                             !.pc = AfterSelect(audio_stream)],
                                Call("streams", "", audio_stream.itag, NoExc, TRUE, "thread"))
                  ELSE Step(t, Raise(f, "VideoUnavailable"),
                            Call("streams", "", 0, "VideoUnavailable", FALSE, "thread"))
    /\ UNCHANGED <<events, handler, loop, chat, disk>>

\* if not audio_stream: edit the message, return
ThreadEditNoAudio(t) ==
    /\ threads[t].pc = "edit_no_audio"
    /\ ThreadEdit(t, threads[t].processing_message, TextNoAudio, NoExc,
                  [threads[t] EXCEPT !.pc = "finally"],
                  Raise(threads[t], "ApiException"))
    /\ UNCHANGED <<events, handler, loop, disk>>

FreshPathFixedName == CHOOSE p \in TempPaths : \A q \in TempPaths : p <= q

\* The name of a new temporary file: one that no file has.  Names are only
\* compared with each other, so the least unused one stands for any of them.
FreshPath == CHOOSE p \in TempPaths : disk[p] = 0 /\ \A q \in TempPaths : disk[q] = 0 => p <= q

\* with tempfile.NamedTemporaryFile(suffix='.mp3', delete=False): a new file
\* under a name no file has.
ThreadCreateTempFile(t) ==
    /\ threads[t].pc = "NamedTemporaryFile"
    /\ \E ok \in Outcomes :
        /\ faults' = Count(ok)
        /\ IF ok
           THEN /\ disk' = [disk EXCEPT ![FreshPath] = t]
                /\ Step(t, [threads[t] EXCEPT !.pc = "download", !.temp_filepath = FreshPath],
                        Call("NamedTemporaryFile", "", FreshPath, NoExc, TRUE, "thread"))
           ELSE /\ disk' = disk
                /\ Step(t, Raise(threads[t], "OSError"),
                        Call("NamedTemporaryFile", "", 0, "OSError", FALSE, "thread"))
    /\ UNCHANGED <<events, handler, loop, chat>>

\* audio_stream.download(...): writes the file at temp_filepath, whole or in part.
ThreadDownload(t) ==
    /\ threads[t].pc = "download"
    /\ LET f == threads[t]
           p == f.temp_filepath
       IN  /\ disk' = [disk EXCEPT ![p] = IF @ = 0 THEN t ELSE @]
           /\ \E ok \in Outcomes :
               /\ faults' = Count(ok)
               /\ IF ok
                  THEN Step(t, [f EXCEPT !.pc = "open"],
                            Call("download", "", p, NoExc, TRUE, "thread"))
                  ELSE \E exc \in {"PytubeError", "OSError"} :
                           Step(t, Raise(f, exc), Call("download", "", p, exc, FALSE, "thread"))
    /\ UNCHANGED <<events, handler, loop, chat>>

\* with open(temp_filepath, 'rb') as audio_file
ThreadOpen(t) ==
    /\ threads[t].pc = "open"
    /\ LET f == threads[t]
           p == f.temp_filepath
       IN  \E ok \in IF disk[p] # 0 THEN Outcomes ELSE {FALSE} :
               /\ faults' = IF disk[p] # 0 THEN Count(ok) ELSE faults
               /\ Step(t, IF ok THEN [f EXCEPT !.pc = "send_audio"] ELSE Raise(f, "OSError"),
                       Call("open", "", p, IF ok THEN NoExc ELSE "OSError", ok, "thread"))
    /\ UNCHANGED <<events, handler, loop, chat, disk>>

ThreadSendAudioUnchecked(t) ==
    /\ threads[t].pc = "send_audio"
    /\ LET f == threads[t]
       IN  \E ok \in Outcomes :
               /\ faults' = Count(ok)
               /\ chat' = IF ok THEN Append(chat, Message("", NoExc, <<>>, disk[f.temp_filepath]))
                          ELSE chat
               /\ Step(t, [f EXCEPT !.pc = "delete_message"],
                       Call("send_audio", "", f.temp_filepath, NoExc, ok, "thread"))
    /\ UNCHANGED <<events, handler, loop, disk>>

\* bot.send_audio(chat_id, audio_file)
ThreadSendAudio(t) ==
    /\ threads[t].pc = "send_audio"
    /\ LET f == threads[t]
       IN  \E ok \in Outcomes :
               /\ faults' = Count(ok)
               /\ chat' = IF ok THEN Append(chat, Message("", NoExc, <<>>, disk[f.temp_filepath]))
                          ELSE chat
               /\ Step(t, IF ok THEN [f EXCEPT !.pc = "delete_message"]
                          ELSE Raise(f, "ApiException"),
                       Call("send_audio", "", f.temp_filepath, NoExc, ok, "thread"))
    /\ UNCHANGED <<events, handler, loop, disk>>

\* bot.delete_message(chat_id, processing_message.message_id)
ThreadDeleteMessage(t) ==
    /\ threads[t].pc = "delete_message"
    /\ LET f == threads[t]
           mid == f.processing_message
       IN  \E ok \in IF Editable(mid) THEN Outcomes ELSE {FALSE} :
               /\ faults' = IF Editable(mid) THEN Count(ok) ELSE faults
               /\ chat' = IF ok THEN [chat EXCEPT ![mid].deleted = TRUE] ELSE chat
               /\ Step(t, IF ok THEN [f EXCEPT !.pc = "finally"] ELSE Raise(f, "ApiException"),
                       Call("delete_message", "", mid, NoExc, ok, "thread"))
    /\ UNCHANGED <<events, handler, loop, disk>>

ThreadExceptRetries(t, text, e) ==
    ThreadEdit(t, Mid(threads[t].message_id), text, e,
               [threads[t] EXCEPT !.pc = "Search", !.exc = NoExc],
               [threads[t] EXCEPT !.pc = "finally", !.exc = "ApiException"])

ThreadExceptSkipsFinally(t, text, e) ==
    ThreadEdit(t, Mid(threads[t].message_id), text, e,
               [threads[t] EXCEPT !.pc = "finally", !.exc = NoExc],
               [threads[t] EXCEPT !.pc = "raised", !.exc = "ApiException"])

\* An except clause: the message is edited to the failure text; when the edit
\* itself fails its exception leaves the function, through finally.
ThreadExcept(t, text, e) ==
    ThreadEdit(t, Mid(threads[t].message_id), text, e,
               [threads[t] EXCEPT !.pc = "finally", !.exc = NoExc],
               [threads[t] EXCEPT !.pc = "finally", !.exc = "ApiException"])

\* except (PytubeError, VideoUnavailable) as e
ThreadExceptPytube(t) ==
    /\ threads[t].pc = "except_pytube"
    /\ ThreadExcept(t, TextYouTubeErr, threads[t].exc)
    /\ UNCHANGED <<events, handler, loop, disk>>

\* except Exception as e
ThreadExceptOther(t) ==
    /\ threads[t].pc = "except_other"
    /\ ThreadExcept(t, TextUnexpected, NoExc)
    /\ UNCHANGED <<events, handler, loop, disk>>

\* if temp_filepath and os.path.exists(temp_filepath)
ShouldRemoveInverted(p) == p # 0 /\ disk[p] = 0
ShouldRemove(p) == p # 0 /\ disk[p] # 0

\* finally: remove the temporary file; then the function returns, or the
\* exception an except clause raised leaves it.
ThreadFinally(t) ==
    /\ threads[t].pc = "finally"
    /\ LET f == threads[t]
           p == f.temp_filepath
           ended == [f EXCEPT !.pc = IF f.exc = NoExc THEN "done" ELSE "raised"]
       IN  IF ShouldRemove(p)
           THEN /\ disk' = [disk EXCEPT ![p] = 0]
                /\ Step(t, ended, Call("remove", "", p, NoExc, TRUE, "thread"))
           ELSE /\ disk' = disk
                /\ threads' = [threads EXCEPT ![t] = ended]
                /\ log' = log
    /\ UNCHANGED <<events, handler, loop, chat, faults>>

\* ------------------------------------------------------------ specification
Next ==
    \/ \E text \in MessageTexts : HandleTextMessage(text)
    \/ TextSendChatAction
    \/ TextSendMessage
    \/ TextSearch
    \/ TextEditNoResults
    \/ TextEditChoose
    \/ TextExcept
    \/ \E payload \in ButtonPayloads \cup ForgedPayloads : HandleCallbackQuery(payload)
    \/ \E t \in Requests : ThreadSendChatAction(t)
    \/ \E t \in Requests : ThreadEditGetting(t)
    \/ \E t \in Requests : ThreadSearch(t)
    \/ \E t \in Requests : ThreadSelectStream(t)
    \/ \E t \in Requests : ThreadEditNoAudio(t)
    \/ \E t \in Requests : ThreadCreateTempFile(t)
    \/ \E t \in Requests : ThreadDownload(t)
    \/ \E t \in Requests : ThreadOpen(t)
    \/ \E t \in Requests : ThreadSendAudio(t)
    \/ \E t \in Requests : ThreadDeleteMessage(t)
    \/ \E t \in Requests : ThreadExceptPytube(t)
    \/ \E t \in Requests : ThreadExceptOther(t)
    \/ \E t \in Requests : ThreadFinally(t)

Spec == Init /\ [][Next]_vars

\* --------------------------------------------- stream selection, any video
\* The videos with up to MaxStreams descriptors, audio-only or not, of two
\* bitrates; the itag of a descriptor is its place in the list.
Bitrates == {128, 160}

AnyVideos ==
    { [id |-> 1, watch_url |-> Url(1),
       streams |-> [i \in 1..n |-> Stream(i, d[i][1], d[i][2])]] :
      <<n, d>> \in UNION { {n} \X [1..n -> {"audio", "video"} \X Bitrates] : n \in 0..MaxStreams } }

\* The calls of a text handler that showed the choice list for " s " on
\* message 1, and those of a click handler that started a thread.
ChoiceListLog ==
    << Call("send_chat_action", "typing", 0, NoExc, TRUE, "loop"),
       Call("send_message", TextSearching, 1, NoExc, TRUE, "loop"),
       Call("Search", "", NumVideos, NoExc, TRUE, "loop"),
       Call("edit_message_text", TextChoose, 1, NoExc, TRUE, "loop") >>

AcceptedClickLog ==
    << Call("answer_callback_query", AckDownloading, 0, NoExc, TRUE, "loop"),
       Call("Thread.start", "", 0, NoExc, TRUE, "loop") >>

\* A thread that was started by a click on the first button of a choice list
\* and has looked its video up; the video has any of the stream lists.
InitSelect ==
    /\ events = << [kind |-> "text", text |-> <<" ", "s", " ">>, data |-> <<>>],
                   [kind |-> "click", text |-> <<>>, data |-> Payload(Url(1), 1)] >>
    /\ handler = <<"returned", "returned">>
    /\ loop = IdleLoop
    /\ chat = <<Message(TextGetting, NoExc, <<>>, 0)>>
    /\ disk = [p \in TempPaths |-> 0]
    /\ faults = 0
    /\ log = << ChoiceListLog,
                AcceptedClickLog \o
                << Call("send_chat_action", "typing", 0, NoExc, TRUE, "thread"),
                   Call("edit_message_text", TextGetting, 1, NoExc, TRUE, "thread"),
                   Call("Search", "", 1, NoExc, TRUE, "thread") >> >>
    /\ \E video \in AnyVideos :
           threads = << NoThread,
                        [NewThread(StrTok(Url(1)), IntTok(1)) EXCEPT
                            !.pc = "streams", !.processing_message = 1, !.video = video] >>

NextSelect == \E t \in Requests : ThreadSelectStream(t)

SpecSelect == InitSelect /\ [][NextSelect]_vars

\* ------------------------------------------------------ text queries only
\* Queries with no result, with fewer results than the keyboard takes, and
\* with more.
QueryTexts == MessageTexts \cup {<<"t">>, <<"t", " ">>}

NextText ==
    \/ \E text \in QueryTexts : HandleTextMessage(text)
    \/ TextSendChatAction
    \/ TextSendMessage
    \/ TextSearch
    \/ TextEditNoResults
    \/ TextEditChoose
    \/ TextExcept

SpecText == Init /\ [][NextText]_vars

\* ------------------------------------------------- two concurrent downloads
\* Two clicks on buttons of one choice list were accepted, for the same video
\* or not, and their threads are about to run.
ClickedUrls == {Url(1), Url(2)}

InitTasks ==
    \E url1, url2 \in ClickedUrls :
        /\ events = << [kind |-> "text", text |-> <<" ", "s", " ">>, data |-> <<>>],
                       [kind |-> "click", text |-> <<>>, data |-> Payload(url1, 1)],
                       [kind |-> "click", text |-> <<>>, data |-> Payload(url2, 1)] >>
        /\ handler = <<"returned", "returned", "returned">>
        /\ loop = IdleLoop
        /\ chat = <<Message(TextChoose, NoExc, Keyboard(SearchResults(<<"s">>), 1), 0)>>
        /\ disk = [p \in TempPaths |-> 0]
        /\ faults = 0
        /\ log = <<ChoiceListLog, AcceptedClickLog, AcceptedClickLog>>
        /\ threads = << NoThread, NewThread(StrTok(url1), IntTok(1)),
                        NewThread(StrTok(url2), IntTok(1)) >>

NextTasks ==
    \/ \E t \in Requests : ThreadSendChatAction(t)
    \/ \E t \in Requests : ThreadEditGetting(t)
    \/ \E t \in Requests : ThreadSearch(t)
    \/ \E t \in Requests : ThreadSelectStream(t)
    \/ \E t \in Requests : ThreadEditNoAudio(t)
    \/ \E t \in Requests : ThreadCreateTempFile(t)
    \/ \E t \in Requests : ThreadDownload(t)
    \/ \E t \in Requests : ThreadOpen(t)
    \/ \E t \in Requests : ThreadSendAudio(t)
    \/ \E t \in Requests : ThreadDeleteMessage(t)
    \/ \E t \in Requests : ThreadExceptPytube(t)
    \/ \E t \in Requests : ThreadExceptOther(t)
    \/ \E t \in Requests : ThreadFinally(t)

SpecTasks == InitTasks /\ [][NextTasks]_vars

\* ------------------------------------------------------------- vocabulary
\* Calls of request r, as positions of its log: those of an operation, the
\* edits to a text, the calls that failed.
Made(r, op) == {i \in 1..Len(log[r]) : log[r][i].op = op}
Edits(r, text) ==
    {i \in 1..Len(log[r]) : log[r][i].op = "edit_message_text" /\ log[r][i].text = text}
Failed(r) == {i \in 1..Len(log[r]) : ~log[r][i].ok}

\* The download task of request r has ended, by return or by an exception.
ThreadEnded(r) == threads[r].pc \in {"done", "raised"}
\* The whole request has ended: its handler and, if it started one, its thread.
RequestEnded(r) == handler[r] # "running" /\ threads[r].pc \in {"none", "done", "raised"}
\* A temporary file created by request r is on disk.
FileOf(r) == \E p \in TempPaths : disk[p] = r

\* The lookup of request r returned at least one video, or none at all.
Found(r) == \E i \in Made(r, "Search") : log[r][i].ok /\ log[r][i].arg >= 1
FoundNone(r) == \E i \in Made(r, "Search") : log[r][i].ok /\ log[r][i].arg = 0

\* The payload of a click lacks what the handler reads.
Malformed(payload) ==
    LET data == json_loads(payload)
    IN  data.kind # "object" \/ ~HasKey(data, KeyUrl) \/ ~HasKey(data, KeyMessageId)

\* A call that tells the user of a failure.
Notifies(c) ==
    /\ c.op \in {"edit_message_text", "send_message", "answer_callback_query"}
    /\ c.text \in {TextSearchErr, TextYouTubeErr, TextUnexpected, AckInvalid, AckUnexpected}

\* The stream selection of thread t found no audio-only stream.
NoAudioSelected(t) == \E i \in Made(t, "streams") : log[t][i].ok /\ log[t][i].arg = 0

\* What json.loads makes of the payload of click r.
Decoded(r) == json_loads(events[r].data)

\* A failure text on a message; a request that has no status message: its
\* send_message failed or never ran, or its thread's first edit did.
FailureText(c) == c.text \in {TextSearchErr, TextYouTubeErr, TextUnexpected}

NoStatusMessage(r) ==
    IF events[r].kind = "text"
    THEN \A i \in Made(r, "send_message") : ~log[r][i].ok
    ELSE threads[r].pc # "none" /\ threads[r].processing_message = 0

TypeOK ==
    /\ Len(handler) = Len(events) /\ Len(threads) = Len(events) /\ Len(log) = Len(events)
    /\ Len(events) <= MaxEvents
    /\ faults \in 0..MaxFaults
    /\ \A p \in TempPaths : disk[p] \in 0..Len(events)
    /\ loop.pc # "idle" => handler[loop.rid] = "running"

\* ------------------------------------------------------------------ claims
\* C1: a download task whose re-lookup returned at least one video, whose
\* chosen video has an audio-only stream and none of whose calls failed, has
\* sent exactly one audio attachment when it ends, has returned normally, and
\* no temporary file it created is on disk.
C1_OneAudioNoFileLeft ==
    \A t \in Requests :
        ( /\ ThreadEnded(t)
          /\ Found(t)
          /\ filter_only_audio(threads[t].video.streams) # <<>>
          /\ Failed(t) = {} )
        => /\ Cardinality(Made(t, "send_audio")) = 1
           /\ Cardinality({m \in 1..Len(chat) : chat[m].audio = t}) = 1
           /\ threads[t].pc = "done"
           /\ ~FileOf(t)

\* A task that found a video with audio, had no call fail, and has ended.
C1_Witness ==
    \E t \in Requests :
        /\ ThreadEnded(t)
        /\ Found(t)
        /\ filter_only_audio(threads[t].video.streams) # <<>>
        /\ Failed(t) = {}
        /\ threads[t].temp_filepath # 0

\* C2: once a request has ended, on whatever path (success, a pytube error,
\* another error at any step, an except clause that itself raised, a rejected
\* click, a text query), no temporary file it created is on disk; and a
\* request that created no file never called os.remove.
C2_CleanupOnEveryExit ==
    \A r \in Requests :
        RequestEnded(r)
        => /\ ~FileOf(r)
           /\ threads[r].temp_filepath = 0 => Made(r, "remove") = {}
           /\ threads[r].temp_filepath # 0 => Cardinality(Made(r, "remove")) = 1

\* A task that created its file, failed, and whose except clause failed too.
C2_Witness ==
    \E r \in Requests :
        /\ threads[r].pc = "raised"
        /\ threads[r].temp_filepath # 0
        /\ \E q \in Requests : q # r /\ events[q].kind = "text" /\ RequestEnded(q)

\* C3: a click whose payload is no JSON text, is JSON but no object, or is an
\* object without 'url' or without 'message_id' is answered with exactly one
\* answer_callback_query carrying an error text, and starts no thread.
C3_MalformedRejected ==
    \A r \in Requests :
        (events[r].kind = "click" /\ Malformed(events[r].data))
        => /\ threads[r].pc = "none"
           /\ Made(r, "Thread.start") = {}
           /\ Len(log[r]) = 1
           /\ log[r][1].op = "answer_callback_query"
           /\ log[r][1].text = IF json_loads(events[r].data).kind = "error"
                               THEN AckInvalid ELSE AckUnexpected

\* One click whose payload is no JSON and one whose object lacks 'message_id'.
C3_Witness ==
    \E r, q \in Requests :
        /\ events[r].kind = "click" /\ json_loads(events[r].data).kind = "error"
        /\ events[q].kind = "click" /\ json_loads(events[q].data).kind = "object"
        /\ ~HasKey(json_loads(events[q].data), KeyMessageId)
        /\ HasKey(json_loads(events[q].data), KeyUrl)

\* C4: no download task and no handler ends with an uncaught exception, and
\* every request in which a call failed later attempts to tell the user.
C4_AllErrorsCaught ==
    \A r \in Requests :
        /\ handler[r] # "raised"
        /\ threads[r].pc # "raised"
        /\ RequestEnded(r)
           => \A i \in Failed(r) : \E j \in (i + 1)..Len(log[r]) : Notifies(log[r][j])

\* C5: no lookup and no download is executed by the receiving loop: the loop
\* is never inside Search, and every Search, streams and download call is made
\* by a thread.
C5_LoopNeverLooksUp ==
    /\ loop.pc # "Search"
    /\ \A r \in Requests : \A i \in 1..Len(log[r]) :
           log[r][i].op \in {"Search", "streams", "download"} => log[r][i].by = "thread"

\* C6: a download task whose re-lookup returned no video edits the message
\* to the "no results" text, not to the generic text, and neither downloads
\* nor sends audio.
C6_NoResultsTextOnEmptyRelookup ==
    \A t \in Requests :
        (ThreadEnded(t) /\ FoundNone(t))
        => /\ Edits(t, TextNoResults) # {}
           /\ Edits(t, TextUnexpected) = {}
           /\ Made(t, "download") = {}
           /\ Made(t, "send_audio") = {}

C8_NoAudioNoOtherError ==
    \A t \in Requests :
        (ThreadEnded(t) /\ NoAudioSelected(t))
        => /\ Cardinality(Edits(t, TextNoAudio)) = 1
           /\ threads[t].temp_filepath = 0
           /\ Made(t, "NamedTemporaryFile") = {}
           /\ Made(t, "download") = {}
           /\ Made(t, "send_audio") = {}
           /\ Edits(t, TextUnexpected) = {}
           /\ Edits(t, TextYouTubeErr) = {}

\* C8 amended: as above, but the generic error text is attempted, once, exactly
\* when the "no audio streams" edit itself failed.
C8_NoAudioErrorOnlyIfEditFails ==
    \A t \in Requests :
        (ThreadEnded(t) /\ NoAudioSelected(t))
        => /\ Cardinality(Edits(t, TextNoAudio)) = 1
           /\ threads[t].temp_filepath = 0
           /\ Made(t, "NamedTemporaryFile") = {}
           /\ Made(t, "download") = {}
           /\ Made(t, "send_audio") = {}
           /\ Edits(t, TextYouTubeErr) = {}
           /\ Cardinality(Edits(t, TextUnexpected)) <= 1
           /\ Edits(t, TextUnexpected) # {} <=> (\E i \in Edits(t, TextNoAudio) : ~log[t][i].ok)
           /\ \A i \in Edits(t, TextNoAudio) : \A j \in Edits(t, TextUnexpected) : i < j

\* A task for a video without audio whose message shows the text.
C8_Witness ==
    \E t \in Requests :
        /\ ThreadEnded(t)
        /\ NoAudioSelected(t)
        /\ \E i \in Edits(t, TextNoAudio) : log[t][i].ok
        /\ chat[threads[t].processing_message].text = TextNoAudio

\* C9 as stated: a thread is started only for a payload that decodes to an
\* object with exactly the two members 'url' and 'message_id'.
C9_ExactlyTwoFields ==
    \A r \in Requests :
        threads[r].pc # "none"
        => /\ Decoded(r).kind = "object"
           /\ Len(Decoded(r).members) = 2
           /\ HasKey(Decoded(r), KeyUrl)
           /\ HasKey(Decoded(r), KeyMessageId)

\* C9 amended: a thread is started only for a payload that decodes to an
\* object having both 'url' and 'message_id'; every such payload, whatever
\* other members it has, is answered "Downloading..." first, and a thread for
\* its url and message_id is started exactly when that answer succeeded.
C9_BothFieldsSuffice ==
    \A r \in Requests :
        events[r].kind = "click"
        => /\ threads[r].pc # "none" => ~Malformed(events[r].data)
           /\ ~Malformed(events[r].data)
              => /\ log[r][1].op = "answer_callback_query"
                 /\ log[r][1].text = AckDownloading
                 /\ log[r][1].ok <=> threads[r].pc # "none"
                 /\ log[r][1].ok
                    => /\ threads[r].video_url = GetItem(Decoded(r), KeyUrl)
                       /\ threads[r].message_id = GetItem(Decoded(r), KeyMessageId)

\* A thread started for a payload with a third member.
C9_Witness ==
    \E r \in Requests :
        /\ threads[r].pc # "none"
        /\ Len(Decoded(r).members) > 2

\* C10: in every request in which a call failed, a pytube error is reported
\* with the YouTube-specific text quoting it and any other error with a
\* generic text; and when the request has no status message (sending or
\* first editing it failed), a new message with the failure text is sent.
C10_FailureTextOrNewMessage ==
    \A r \in Requests :
        (RequestEnded(r) /\ Failed(r) # {})
        => /\ \A i \in Failed(r) :
                  (log[r][i].op \in {"Search", "streams", "download"}
                     /\ log[r][i].e \in PytubeErrors)
                  => \E j \in (i + 1)..Len(log[r]) :
                         /\ log[r][j].op \in {"edit_message_text", "send_message"}
                         /\ log[r][j].text = TextYouTubeErr
                         /\ log[r][j].e = log[r][i].e
           /\ (events[r].kind = "text" \/ threads[r].pc # "none")
              => \E j \in 1..Len(log[r]) :
                     /\ FailureText(log[r][j])
                     /\ log[r][j].op = IF NoStatusMessage(r) THEN "send_message"
                                       ELSE "edit_message_text"


\* The status message of text request r, sent by its second call.
StatusMessage(r) == log[r][2].arg
Min(a, b) == IF a < b THEN a ELSE b

\* C11: while the status message of a text query with n >= 1 results shows
\* the choice text, it carries exactly min(n, 5) buttons, the i-th for the
\* i-th result of the lookup: its payload decodes to an object whose 'url' is
\* that result's watch url and whose 'message_id' is the status message; the
\* handler makes the edit that presents them exactly once.
C11_FirstFiveButtons ==
    \A r \in Requests :
        (events[r].kind = "text" /\ handler[r] # "running" /\ Found(r))
        => LET results == SearchResults(strip(events[r].text))
               m == StatusMessage(r)
           IN  /\ Cardinality(Edits(r, TextChoose)) = 1
               /\ chat[m].text = TextChoose
                  => /\ Len(chat[m].buttons) = Min(Len(results), TopResults)
                     /\ \A i \in 1..Len(chat[m].buttons) :
                            LET data == json_loads(chat[m].buttons[i])
                            IN  /\ data.kind = "object"
                                /\ GetItem(data, KeyUrl) = StrTok(results[i].watch_url)
                                /\ GetItem(data, KeyMessageId) = IntTok(m)

\* Two text queries on display: one with more than five results and five
\* buttons, one with two results and two buttons.
C11_Witness ==
    \E r, q \in Requests :
        /\ events[r].kind = "text" /\ events[q].kind = "text"
        /\ handler[r] = "returned" /\ handler[q] = "returned"
        /\ Len(SearchResults(strip(events[r].text))) > TopResults
        /\ Len(SearchResults(strip(events[q].text))) = 2
        /\ chat[StatusMessage(r)].text = TextChoose
        /\ chat[StatusMessage(q)].text = TextChoose
        /\ Len(chat[StatusMessage(r)].buttons) = TopResults
        /\ Len(chat[StatusMessage(q)].buttons) = 2


\* Nothing is running: the loop is idle and every thread has ended.
Quiescent == loop.pc = "idle" /\ \A r \in Requests : threads[r].pc \in {"none", "done", "raised"}

OnlySelectionsDownload ==
    \A r \in Requests :
        /\ Cardinality(Made(r, "Thread.start")) <= 1
        /\ threads[r].pc # "none" <=> Made(r, "Thread.start") # {}
        /\ events[r].kind = "text"
           => /\ threads[r].pc = "none"
              /\ Made(r, "NamedTemporaryFile") = {}
              /\ Made(r, "download") = {}
              /\ Made(r, "send_audio") = {}
        /\ threads[r].pc # "none"
           => /\ events[r].kind = "click"
              /\ threads[r].video_url = GetItem(Decoded(r), KeyUrl)
              /\ HasKey(Decoded(r), KeyUrl)

\* C12: a download is started only by a selection.  A text request starts no
\* thread and neither downloads nor sends audio; a click starts at most one
\* thread, and that thread is for the url its payload carries; and when the
\* loop is idle and every thread has ended (a choice list may be on display),
\* the only step that can follow is the arrival of a new event.
C12_DownloadOnlyOnSelection ==
    /\ []OnlySelectionsDownload
    /\ [][Quiescent => Len(events') = Len(events) + 1]_vars

\* A choice list was presented and a click on one of its buttons has run its
\* thread to the end.
C12_Witness ==
    \E r, q \in Requests :
        /\ events[r].kind = "text"
        /\ \E i \in Edits(r, TextChoose) : log[r][i].ok
        /\ events[q].kind = "click"
        /\ events[q].data \in {Keyboard(SearchResults(strip(events[r].text)), StatusMessage(r))[i] :
                                 i \in 1..Min(Len(SearchResults(strip(events[r].text))), TopResults)}
        /\ ThreadEnded(q)
        /\ Made(q, "download") # {}


\* The places of the audio-only descriptors of thread t's video, and those
\* among them with the highest bitrate.
AudioPlaces(t) ==
    {i \in 1..Len(threads[t].video.streams) : threads[t].video.streams[i].type = "audio"}
BestPlaces(t) ==
    {i \in AudioPlaces(t) :
        \A j \in AudioPlaces(t) :
            threads[t].video.streams[j].bitrate <= threads[t].video.streams[i].bitrate}
Selected(t) == \E i \in Made(t, "streams") : log[t][i].ok

\* C13 as stated: the stream selected is an audio-only one of the highest
\* bitrate, and of several with that bitrate the first of the original order.
C13_MaxBitrateFirstOfTies ==
    \A t \in Requests :
        (Selected(t) /\ AudioPlaces(t) # {})
        => \E i \in BestPlaces(t) :
               /\ threads[t].audio_stream = threads[t].video.streams[i]
               /\ \A j \in BestPlaces(t) : i <= j

\* C13 amended: the stream selected is an audio-only one of the highest
\* bitrate, and of several with that bitrate the last of the original order;
\* with no audio-only descriptor nothing is selected.
C13_MaxBitrateLastOfTies ==
    \A t \in Requests :
        Selected(t)
        => /\ AudioPlaces(t) = {} => threads[t].audio_stream = NoStream
           /\ AudioPlaces(t) # {}
              => \E i \in BestPlaces(t) :
                     /\ threads[t].audio_stream = threads[t].video.streams[i]
                     /\ \A j \in BestPlaces(t) : j <= i

\* A selection among descriptors of which several share the highest bitrate
\* and a lower one is present too.
C13_Witness ==
    \E t \in Requests :
        /\ Selected(t)
        /\ Cardinality(BestPlaces(t)) >= 2
        /\ AudioPlaces(t) # BestPlaces(t)


\* Calls of request r, by their place in its log: the successful ones of an
\* operation, and the orderings the download task keeps.
Succeeded(r, op) == {i \in Made(r, op) : log[r][i].ok}
CreatedBetweenSelectionAndDownload(r) ==
    /\ \A i \in Made(r, "NamedTemporaryFile") :
           /\ \E j \in Succeeded(r, "streams") : j < i /\ log[r][j].arg # NoStream.itag
           /\ \A k \in Made(r, "download") : i < k
    /\ \A k \in Made(r, "download") : \E i \in Succeeded(r, "NamedTemporaryFile") : i < k
SendDeleteRemove(r) ==
    /\ \A d \in Made(r, "delete_message") : \E a \in Succeeded(r, "send_audio") : a < d
    /\ \A m \in Made(r, "remove") : \A d \in Made(r, "delete_message") : d < m
    /\ (Succeeded(r, "delete_message") # {} /\ ThreadEnded(r)) => Made(r, "remove") # {}
FileInUse(r) == threads[r].pc \in {"download", "open", "send_audio"}

\* C14 as stated: the temporary file is created after a non-empty stream was
\* selected and before the download; it is removed only after the send
\* attempt has completed or failed; on success the order is send audio, delete
\* the progress message, remove the file.
C14_RemovedOnlyAfterSendAttempt ==
    \A r \in Requests :
        /\ CreatedBetweenSelectionAndDownload(r)
        /\ SendDeleteRemove(r)
        /\ \A m \in Made(r, "remove") : \E a \in Made(r, "send_audio") : a < m

\* C14 amended: the temporary file is created after a non-empty stream was
\* selected and before the download; it is removed only when the task's
\* download and send attempts are over (none is in progress, none follows),
\* whether or not a send was attempted; on success the order is send audio,
\* delete the progress message, remove the file.
C14_RemovedOnlyAfterDownloadAndSend ==
    \A r \in Requests :
        /\ CreatedBetweenSelectionAndDownload(r)
        /\ SendDeleteRemove(r)
        /\ \A m \in Made(r, "remove") :
               /\ \A k \in Made(r, "download") \cup Made(r, "open") \cup Made(r, "send_audio") : k < m
               /\ ~FileInUse(r)
        /\ FileInUse(r) => disk[threads[r].temp_filepath] = r

\* A task that selected a stream, created its file, downloaded, sent the
\* audio, deleted the progress message and removed the file.
C14_Witness ==
    \E r \in Requests :
        /\ ThreadEnded(r)
        /\ Succeeded(r, "download") # {}
        /\ Succeeded(r, "send_audio") # {} /\ Succeeded(r, "delete_message") # {}
        /\ Made(r, "remove") # {}


\* Task r holds a temporary file: it created one and has not come to its end.
Holds(r) == threads[r].temp_filepath # 0 /\ ~ThreadEnded(r)
LastCall(r) == log[r][Len(log[r])]
OwnFilesOnly ==
    \A r \in Requests :
        /\ Holds(r) /\ Made(r, "remove") = {}
           => /\ disk[threads[r].temp_filepath] = r
              /\ \A q \in Requests \ {r} :
                     Holds(q) => threads[q].temp_filepath # threads[r].temp_filepath
        /\ \A i \in Made(r, "download") \cup Made(r, "open") \cup Made(r, "send_audio")
                    \cup Made(r, "remove") :
               /\ log[r][i].arg = threads[r].temp_filepath
               /\ \E j \in Succeeded(r, "NamedTemporaryFile") : j < i /\ log[r][j].arg = log[r][i].arg
        /\ Cardinality(Made(r, "NamedTemporaryFile")) <= 1
\* A step that writes or removes a file, or sends one as an audio message, is
\* a step of the task that created the file.
StepOnOwnFile ==
    /\ \A p \in TempPaths :
           /\ (disk[p] # 0 /\ disk'[p] # disk[p])
              => /\ disk'[p] = 0
                 /\ Len(log'[disk[p]]) = Len(log[disk[p]]) + 1
                 /\ log'[disk[p]][Len(log'[disk[p]])].op = "remove"
           /\ (disk[p] = 0 /\ disk'[p] # 0)
              => /\ Len(log'[disk'[p]]) = Len(log[disk'[p]]) + 1
                 /\ log'[disk'[p]][Len(log'[disk'[p]])].op = "NamedTemporaryFile"
    /\ Len(chat') > Len(chat)
       => \A r \in Requests :
              (Len(log'[r]) > Len(log[r]) /\ log'[r][Len(log'[r])].op = "send_audio")
              => chat'[Len(chat')].audio = r

\* C15: under every interleaving of two running download tasks, for the same
\* url or not, the temporary files of live tasks are distinct, and a task
\* writes, reads, sends and removes only the file it created.
C15_TaskOwnsItsFile == []OwnFilesOnly /\ [][StepOnOwnFile]_vars

\* Two tasks downloading the same url hold their files at the same time; one
\* of them has sent its file.
C15_Witness ==
    \E r, q \in Requests :
        /\ r # q /\ Holds(r) /\ Holds(q)
        /\ Made(r, "remove") = {} /\ Made(q, "remove") = {}
        /\ threads[r].video_url = threads[q].video_url
        /\ Succeeded(r, "send_audio") # {}


\* C16: nothing is retried: within one request the video lookup, the audio
\* download and the audio send are each invoked at most once, whatever fails.
C16_NothingRetried ==
    \A r \in Requests :
        /\ Cardinality(Made(r, "Search")) <= 1
        /\ Cardinality(Made(r, "download")) <= 1
        /\ Cardinality(Made(r, "send_audio")) <= 1

\* Requests that have ended after a failure: a text request whose lookup
\* failed, and a download task whose send (or download) failed.
C16_Witness ==
    \E r, q \in Requests :
        /\ RequestEnded(r) /\ RequestEnded(q)
        /\ events[r].kind = "text"
        /\ Made(r, "Search") # {} /\ Succeeded(r, "Search") = {}
        /\ Made(q, "download") # {}
        /\ Succeeded(q, "download") = {} \/ (Made(q, "send_audio") # {} /\ Succeeded(q, "send_audio") = {})


\* The acknowledgments of click r: all attempts, and the "Downloading..." ones.
Acks(r, text) == {i \in Made(r, "answer_callback_query") : log[r][i].text = text}

\* C17: a click with a well-formed payload is acknowledged ("Downloading...")
\* before the download task is started; if that acknowledgment fails no task
\* is started and a failure acknowledgment is attempted instead; every click
\* has at least one acknowledgment attempt.
C17_AckBeforeStart ==
    \A r \in Requests :
        events[r].kind = "click"
        => /\ Made(r, "answer_callback_query") # {}
           /\ \A i \in Made(r, "Thread.start") :
                  \E a \in Acks(r, AckDownloading) : a < i /\ log[r][a].ok
           /\ ~Malformed(events[r].data)
              => /\ Acks(r, AckDownloading) = {1}
                 /\ log[r][1].ok
                    => Made(r, "Thread.start") = {2} /\ threads[r].pc # "none"
                 /\ ~log[r][1].ok
                    => /\ Made(r, "Thread.start") = {}
                       /\ threads[r].pc = "none"
                       /\ Acks(r, AckUnexpected) = {2}

\* A well-formed click whose "Downloading..." acknowledgment failed, and one
\* for which it succeeded and the task was started.
C17_Witness ==
    \E r, q \in Requests :
        /\ events[r].kind = "click" /\ ~Malformed(events[r].data)
        /\ ~log[r][1].ok /\ Acks(r, AckUnexpected) # {}
        /\ events[q].kind = "click" /\ Made(q, "Thread.start") # {}


\* The step hands handle_callback_query a click that carries the payload of
\* button i of message m; q is the text request that sent message m.
ClickOn(m, i) ==
    /\ Len(events') = Len(events) + 1
    /\ events'[Len(events')].kind = "click"
    /\ events'[Len(events')].data = chat[m].buttons[i]
Sent(q, m) ==
    /\ events[q].kind = "text"
    /\ \E j \in Succeeded(q, "send_message") : log[q][j].arg = m
Candidate(q, i) == SearchResults(strip(events[q].text))[i]
StartedFor(f, q, i, m) ==
    /\ f.pc # "none"
    /\ f.video_url = StrTok(Candidate(q, i).watch_url)
    /\ f.message_id = IntTok(m)

\* C18 as stated: the payload of every button that handle_text_message
\* generated, fed back to handle_callback_query, is accepted and starts a
\* download task whose video_url is the candidate's watch url and whose
\* message_id is the identifier of the status message that carried the button.
C18_RoundTripAlwaysStarts ==
    [][\A q \in Requests : \A m \in 1..Len(chat) : \A i \in 1..Len(chat[m].buttons) :
          (ClickOn(m, i) /\ Sent(q, m))
          => StartedFor(threads'[Len(events')], q, i, m)]_vars

\* C18 amended: the payload of every button that handle_text_message
\* generated, fed back to handle_callback_query, is decoded without error and
\* acknowledged with "Downloading..."; when that acknowledgment succeeds a
\* download task is started whose video_url is the candidate's watch url and
\* whose message_id is the identifier of the status message that carried the
\* button; when it fails no task is started.
C18_RoundTripStartsWhenAcknowledged ==
    [][\A q \in Requests : \A m \in 1..Len(chat) : \A i \in 1..Len(chat[m].buttons) :
          (ClickOn(m, i) /\ Sent(q, m))
          => LET r == Len(events')
                 ack == log'[r][1]
             IN  /\ ~Malformed(chat[m].buttons[i])
                 /\ ack.op = "answer_callback_query" /\ ack.text = AckDownloading
                 /\ ack.ok => StartedFor(threads'[r], q, i, m)
                 /\ ~ack.ok => threads'[r].pc = "none"]_vars

\* A click on the second button of a choice list has started a task for the
\* second candidate and the message that carried the button.
C18_Witness ==
    \E q, r \in Requests : \E m \in 1..Len(chat) :
        /\ Sent(q, m)
        /\ \E j \in Edits(q, TextChoose) : log[q][j].ok
        /\ events[r].kind = "click"
        /\ events[r].data = Payload(Candidate(q, 2).watch_url, m)
        /\ StartedFor(threads[r], q, 2, m)


\* In the download task of r: the lookup, download or send that failed (a
\* lookup fails also by returning no video), and the edits to a failure text.
FailedStep(r) ==
    {i \in Made(r, "Search") \cup Made(r, "download") \cup Made(r, "send_audio") :
        /\ log[r][i].by = "thread"
        /\ ~log[r][i].ok \/ (log[r][i].op = "Search" /\ log[r][i].arg = 0)}
FailureEdits(r) ==
    {i \in Edits(r, TextYouTubeErr) \cup Edits(r, TextUnexpected) : log[r][i].by = "thread"}
DeletedOnlyAfterSent(r) ==
    /\ \A d \in Made(r, "delete_message") : \E a \in Succeeded(r, "send_audio") : a < d
    /\ \A e \in FailureEdits(r) : \A a \in Made(r, "send_audio") : a < e

\* C19 as stated: the progress message is deleted only after send_audio
\* returned successfully; when the lookup, download or send fails it is never
\* deleted but is edited to a failure text; no audio is sent after a failure
\* text was shown for the task.
C19_FailureEditsMessage ==
    \A r \in Requests :
        /\ DeletedOnlyAfterSent(r)
        /\ (FailedStep(r) # {} /\ ThreadEnded(r))
           => /\ Made(r, "delete_message") = {}
              /\ \E e \in FailureEdits(r) : log[r][e].ok /\ \A i \in FailedStep(r) : i < e

\* C19 amended: the progress message is deleted only after send_audio
\* returned successfully; when the lookup, download or send fails the task
\* never deletes it and attempts exactly one edit of the message its payload
\* names to a failure text, an edit that may itself fail; no audio is sent
\* after a failure text was shown for the task.
C19_FailureAttemptsEdit ==
    \A r \in Requests :
        /\ DeletedOnlyAfterSent(r)
        /\ (FailedStep(r) # {} /\ ThreadEnded(r))
           => /\ Made(r, "delete_message") = {}
              /\ Cardinality(FailureEdits(r)) = 1
              /\ \A e \in FailureEdits(r) :
                     /\ \A i \in FailedStep(r) : i < e
                     /\ log[r][e].arg = Mid(threads[r].message_id)

\* A task whose send failed: the message was not deleted and shows the
\* failure text.
C19_Witness ==
    \E r \in Requests :
        /\ ThreadEnded(r)
        /\ Made(r, "send_audio") # {} /\ Succeeded(r, "send_audio") = {}
        /\ Made(r, "delete_message") = {}
        /\ \E e \in FailureEdits(r) :
               log[r][e].ok /\ chat[log[r][e].arg].text = TextUnexpected

====
